---- MODULE Spec2Model ----
(***************************************************************************)
(* Conversation repository of bedrock-claude-chat                          *)
(* (backend/app/repositories/conversation.py) over a single DynamoDB       *)
(* table.  Identifiers that end up in keys are sequences of characters, so *)
(* that key composition, prefix matching and the store's ordering of sort  *)
(* keys are computed, not assumed.  Optional values are None (the empty    *)
(* tuple) or Some(v) (a one-element tuple).                                *)
(***************************************************************************)
EXTENDS Naturals, Sequences, FiniteSets, TLC

VARIABLES
    table,      \* the DynamoDB table: <<PK, SK>> -> item (attribute name -> value)
    ret,        \* the last completed repository call: its arguments and outcome
                \* ("pending" while a call that takes several steps is under way)
    tick,       \* flips on every completed call, so that a call is always a step
    hist,       \* <<user id, conversation id>> -> the last write that succeeded on it
    fbu,        \* find_conversation_by_user_id in progress (between two queries)
    bd,         \* delete_conversation_by_user_id in progress (between store calls)
    batch_size, \* the configured TRANSACTION_BATCH_SIZE
    conc        \* two callers running one write each, and the store's open transactions

vars == <<table, ret, tick, hist, fbu, bd, batch_size, conc>>

\* ------------------------------------------------------------------ values

None == <<>>
Some(v) == <<v>>

\* Python truthiness of an Optional[str]: None and "" are falsy.
Truthy(opt) == opt # None /\ opt[1] # <<>>

\* No concurrent callers.
ConcOff == [pc |-> "off"]

\* ------------------------------------------------------------------ bounds

\* Values get_current_time() may return: 1..MaxTime.
MaxTime == 2
\* Conversations a partition holds in the listing and bulk-delete specifications.
MaxConvs == 6
\* Largest number of items the store puts in one page of a query.
MaxPageSize == 2
\* Largest value of the configured batch limit TRANSACTION_BATCH_SIZE.
MaxBatchSize == 2

Times == 1..MaxTime

\* ------------------------------------------------------------------ strings

u1 == <<"u", "1">>
u2 == <<"u", "2">>
Users == {u1, u2}

\* Conversation ids; the second one contains the key separator.
c1 == <<"c", "1">>
c2 == <<"d", "#">>
ConvIds == {c1, c2}

b1 == <<"b", "1">>
b2 == <<"b", "2">>

\* Code points of the characters used in keys (DynamoDB orders string sort
\* keys by their UTF-8 bytes).
Code(ch) ==
    CASE ch = "#" -> 35
      [] ch = "1" -> 49 [] ch = "2" -> 50 [] ch = "3" -> 51 [] ch = "4" -> 52
      [] ch = "5" -> 53 [] ch = "6" -> 54 [] ch = "7" -> 55 [] ch = "8" -> 56
      [] ch = "9" -> 57
      [] ch = "B" -> 66 [] ch = "C" -> 67 [] ch = "N" -> 78 [] ch = "O" -> 79
      [] ch = "T" -> 84 [] ch = "V" -> 86
      [] ch = "b" -> 98 [] ch = "c" -> 99 [] ch = "d" -> 100 [] ch = "k" -> 107
      [] ch = "u" -> 117

\* s < t in the byte order of strings: decided by the first position at
\* which they differ, or by their lengths when one is a prefix of the other.
StrLess(s, t) ==
    LET m == IF Len(s) < Len(t) THEN Len(s) ELSE Len(t)
        diff == {i \in 1..m : s[i] # t[i]}
    IN IF diff = {} THEN Len(s) < Len(t)
       ELSE LET i == CHOOSE d \in diff : \A e \in diff : d <= e
            IN Code(s[i]) < Code(t[i])

\* str.startswith / begins_with
StartsWith(s, p) == Len(s) >= Len(p) /\ SubSeq(s, 1, Len(p)) = p

\* ------------------------------------------------------------------ key codec

CONV_TAG == <<"#", "C", "O", "N", "V", "#">>
BOT_TAG == <<"#", "B", "O", "T", "#">>

\* f"{user_id}#CONV#{conversation_id}"
compose_conv_id(user_id, conversation_id) == user_id \o CONV_TAG \o conversation_id

\* f"{user_id}#BOT#{bot_id}"
compose_bot_id(user_id, bot_id) == user_id \o BOT_TAG \o bot_id

\* Positions at which the conversation tag occurs in a sort key.
TagPositions(sk) ==
    {i \in 1..Len(sk) : i + Len(CONV_TAG) - 1 <= Len(sk)
                        /\ SubSeq(sk, i, i + Len(CONV_TAG) - 1) = CONV_TAG}

\* A sort key that lacks the conversation prefix cannot be decoded.
Decodable(sk) == TagPositions(sk) # {}

\* Strips the prefix "{user_id}#CONV#": everything up to and including the
\* first occurrence of the tag (user ids contain no separator).
decompose_conv_id(sk) ==
    LET i == CHOOSE p \in TagPositions(sk) : \A q \in TagPositions(sk) : p <= q
    IN SubSeq(sk, i + Len(CONV_TAG), Len(sk))

\* ------------------------------------------------------------------ domain model

\* MessageModel.model_dump(): the dict json.dumps serialises.
model_dump(m) ==
    [role |-> m.role,
     content |-> [content_type |-> m.content.content_type, body |-> m.content.body],
     model |-> m.model,
     children |-> m.children,
     parent |-> m.parent,
     create_time |-> m.create_time]

\* json.dumps({k: v.model_dump() for k, v in message_map.items()}): a JSON
\* object is the ordered list of its (key, value) members; a dict keeps
\* insertion order and so does the text.
dumps_message_map(message_map) ==
    [i \in 1..Len(message_map) |-> <<message_map[i][1], model_dump(message_map[i][2])>>]

\* The MessageModel find_conversation_by_id builds from one parsed member.
MessageModelOf(v) ==
    [role |-> v.role,
     content |-> [content_type |-> v.content.content_type, body |-> v.content.body],
     model |-> v.model,
     children |-> v.children,
     parent |-> v.parent,
     create_time |-> v.create_time]

\* {k: MessageModel(...) for k, v in json.loads(item["MessageMap"]).items()}
loads_message_map(text) ==
    [i \in 1..Len(text) |-> <<text[i][1], MessageModelOf(text[i][2])>>]

\* json.loads(text).popitem()[1]["model"]: popitem removes the member that
\* was inserted last.  Only defined on a non-empty object (KeyError otherwise).
popitem_model(text) == text[Len(text)][2].model

Msg(model, parent, children) ==
    [role |-> "user",
     content |-> [content_type |-> "text", body |-> "hi"],
     model |-> model,
     children |-> children,
     parent |-> parent,
     create_time |-> 1]

MapEmpty == <<>>
MapGpt == << <<"m1", Msg("gpt", None, <<>>)>> >>
MapClaude == << <<"m1", Msg("claude", None, <<>>)>> >>
MapMixed == << <<"m1", Msg("gpt", None, <<"m2">>)>>,
               <<"m2", Msg("claude", Some("m1"), <<>>)>> >>

\* The models a message map mentions.
ModelsOf(message_map) == {message_map[i][2].model : i \in 1..Len(message_map)}

\* ConversationModel
Conv(id, title, create_time, message_map, last_message_id, bot_id) ==
    [id |-> id, title |-> title, create_time |-> create_time,
     message_map |-> message_map, last_message_id |-> last_message_id,
     bot_id |-> bot_id]

\* ------------------------------------------------------------------ table client

KeyOf(item) == <<item.PK, item.SK>>

\* Names of the store's answers.
NoFault == "none"
CondFailed == "ConditionalCheckFailedException"
Throttled == "ProvisionedThroughputExceededException"
TxCanceled == "TransactionCanceledException"
TxConflict == "TransactionConflictException"
\* The errors the client raises as botocore ClientError (the store answered
\* with an error), and a failure to reach the store, which it raises as
\* EndpointConnectionError, a BotoCoreError that is no ClientError.
ClientErrors == {CondFailed, Throttled, TxCanceled, TxConflict}
ConnectionFailed == "EndpointConnectionError"
ExistsCondition == "attribute_exists(PK) AND attribute_exists(SK)"

\* PutItem: creates or replaces the whole item.
PutItem(tbl, item) ==
    [k \in DOMAIN tbl \cup {KeyOf(item)} |-> IF k = KeyOf(item) THEN item ELSE tbl[k]]

\* UpdateItem "set attr = value": an update of a missing item creates it
\* with its key and the attribute set.
SetAttr(tbl, key, attr, value) ==
    LET old == IF key \in DOMAIN tbl THEN tbl[key] ELSE [PK |-> key[1], SK |-> key[2]]
        new == [a \in DOMAIN old \cup {attr} |-> IF a = attr THEN value ELSE old[a]]
    IN [k \in DOMAIN tbl \cup {key} |-> IF k = key THEN new ELSE tbl[k]]

\* DeleteItem: deleting a missing item is not an error.
RemoveItem(tbl, key) == [k \in DOMAIN tbl \ {key} |-> tbl[k]]

\* Whether a request's ConditionExpression holds on the addressed item.
ConditionHolds(tbl, key, condition) ==
    IF condition = ExistsCondition THEN key \in DOMAIN tbl ELSE TRUE

\* Query on the table: the items of partition user_id whose sort key begins
\* with prefix.
Matching(tbl, user_id, prefix) ==
    {k \in DOMAIN tbl : k[1] = user_id /\ StartsWith(k[2], prefix)}

\* The keys of a set in the order of a scan: sort key ascending
\* (ScanIndexForward, the default) or descending.
Sorted(keys, forward) ==
    LET before(k) == Cardinality({j \in keys : IF forward THEN StrLess(j[2], k[2])
                                                        ELSE StrLess(k[2], j[2])})
    IN [i \in 1..Cardinality(keys) |-> CHOOSE k \in keys : before(k) = i - 1]

\* What a query still has to return after ExclusiveStartKey: the keys behind
\* the start key in the direction of the scan.
Remaining(tbl, params) ==
    LET all == Matching(tbl, params.user_id, params.prefix)
        rest == IF params.ExclusiveStartKey = None THEN all
                ELSE IF params.ScanIndexForward
                     THEN {k \in all : StrLess(params.ExclusiveStartKey[1][2], k[2])}
                     ELSE {k \in all : StrLess(k[2], params.ExclusiveStartKey[1][2])}
    IN Sorted(rest, params.ScanIndexForward)

\* The page sizes the store may answer a query with when r is what remains,
\* and whether it may attach a LastEvaluatedKey: a page that leaves items
\* behind carries one; a page that ends on the last item may carry one too
\* (the store stops at its size limit without looking further).
PageChoices(r) ==
    IF r = <<>> THEN {<<0, FALSE>>}
    ELSE {<<n, more>> \in (1..MaxPageSize) \X BOOLEAN :
             n <= Len(r) /\ (n < Len(r) => more)}

\* One page of a query: the first n items of what remains and, if more, the
\* key of the last one.
QueryPage(tbl, r, n, more) ==
    [Items |-> [i \in 1..n |-> tbl[r[i]]],
     LastEvaluatedKey |-> IF more THEN Some(r[n]) ELSE None]

\* Query on the index SKIndex: every item of the table with that sort key,
\* whatever its partition.
IndexMatching(tbl, sk) == {k \in DOMAIN tbl : k[2] = sk}

RECURSIVE TransactWriteItems(_, _)
\* TransactWriteItems, accepted: every write of the list is applied.
TransactWriteItems(tbl, items) ==
    IF items = <<>> THEN tbl
    ELSE LET w == Head(items)
             next == IF w.kind = "Put" THEN PutItem(tbl, w.Item)
                     ELSE SetAttr(tbl, w.Key, w.attr, w.value)
         IN TransactWriteItems(next, Tail(items))

\* ------------------------------------------------------------------ history

\* Records the write that succeeded on a conversation: <<"put", C>> for
\* store_conversation, <<"deleted", during>> for delete_conversation_by_id
\* (during: a listing of that user was between two of its queries when the
\* delete was served, and no listing of that user has been called since),
\* <<"titled">> for change_conversation_title, <<"purged">> for an item
\* delete_conversation_by_user_id removed.
Note(h, pair, what) ==
    [p \in DOMAIN h \cup {pair} |-> IF p = pair THEN what ELSE h[p]]

Noted(pair, kind) == pair \in DOMAIN hist /\ hist[pair][1] = kind

\* A listing of user_id is called: every delete on record for the user
\* precedes it.
ListingCalled(h, user_id) ==
    [p \in DOMAIN h |-> IF p[1] = user_id /\ h[p][1] = "deleted"
                        THEN <<"deleted", FALSE>> ELSE h[p]]

\* ------------------------------------------------------------------ store_conversation

\* Mutant: the bot reference is not written.
ConversationItemWithoutBot(user_id, conversation) ==
    [PK |-> user_id,
     SK |-> compose_conv_id(user_id, conversation.id),
     Title |-> conversation.title,
     CreateTime |-> conversation.create_time,
     MessageMap |-> dumps_message_map(conversation.message_map),
     LastMessageId |-> conversation.last_message_id,
     BotId |-> None]

\* Mutant: the sort key lacks the conversation id.
ConversationItemSharedKey(user_id, conversation) ==
    [PK |-> user_id,
     SK |-> user_id \o CONV_TAG,
     Title |-> conversation.title,
     CreateTime |-> conversation.create_time,
     MessageMap |-> dumps_message_map(conversation.message_map),
     LastMessageId |-> conversation.last_message_id,
     BotId |-> conversation.bot_id]

\* The item store_conversation puts.
ConversationItem(user_id, conversation) ==
    [PK |-> user_id,
     SK |-> compose_conv_id(user_id, conversation.id),
     Title |-> conversation.title,
     CreateTime |-> conversation.create_time,
     MessageMap |-> dumps_message_map(conversation.message_map),
     LastMessageId |-> conversation.last_message_id,
     BotId |-> conversation.bot_id]

\* Mutant: the bot is stamped with the conversation's create_time.
BotUpdateCreateTime(user_id, conversation, current_time) ==
    [kind |-> "Update",
     Key |-> <<user_id, compose_bot_id(user_id, conversation.bot_id[1])>>,
     attr |-> "LastBotUsed",
     value |-> conversation.create_time,
     ConditionExpression |-> ""]

\* The update appended when conversation.bot_id is truthy; it carries no
\* ConditionExpression.
BotUpdate(user_id, conversation, current_time) ==
    [kind |-> "Update",
     Key |-> <<user_id, compose_bot_id(user_id, conversation.bot_id[1])>>,
     attr |-> "LastBotUsed",
     value |-> current_time,
     ConditionExpression |-> ""]

transact_items(user_id, conversation, current_time) ==
    <<[kind |-> "Put", Item |-> ConversationItem(user_id, conversation)]>>
    \o (IF Truthy(conversation.bot_id)
        THEN <<BotUpdate(user_id, conversation, current_time)>>
        ELSE <<>>)

\* store_conversation: one transact_write_items call.  fault is the store's
\* answer: accepted, or rejected as a whole; a ClientError propagates.
store_conversation(user_id, conversation, current_time, fault) ==
    /\ table' = IF fault = NoFault
                THEN TransactWriteItems(table,
                         transact_items(user_id, conversation, current_time))
                ELSE table
    /\ ret' = [op |-> "store_conversation", user_id |-> user_id,
               conversation |-> conversation, current_time |-> current_time,
               outcome |-> IF fault = NoFault THEN "ok" ELSE fault]
    /\ hist' = IF fault = NoFault
               THEN Note(hist, <<user_id, conversation.id>>, <<"put", conversation>>)
               ELSE hist
    /\ tick' = 1 - tick
    /\ UNCHANGED <<fbu, bd, batch_size, conc>>

\* ------------------------------------------------------------------ find_conversation_by_id

ConversationAttrs == {"SK", "CreateTime", "Title", "MessageMap", "LastMessageId", "BotId"}

\* Mutant: the id is the sort key as stored.
ConversationModelOfRawKey(item) ==
    [id |-> item.SK,
     create_time |-> item.CreateTime,
     title |-> item.Title,
     message_map |-> loads_message_map(item.MessageMap),
     last_message_id |-> item.LastMessageId,
     bot_id |-> item.BotId]

\* The ConversationModel built from the first item of the response.
ConversationModelOf(item) ==
    [id |-> decompose_conv_id(item.SK),
     create_time |-> item.CreateTime,
     title |-> item.Title,
     message_map |-> loads_message_map(item.MessageMap),
     last_message_id |-> item.LastMessageId,
     bot_id |-> item.BotId]

\* The keys of the items the query on SKIndex returns: those whose sort key
\* is the composed key of (user_id, conversation_id).
FindByIdMatches(tbl, user_id, conversation_id) ==
    IndexMatching(tbl, compose_conv_id(user_id, conversation_id))

find_conversation_by_id(user_id, conversation_id) ==
    LET found == FindByIdMatches(table, user_id, conversation_id)
        call == [op |-> "find_conversation_by_id", user_id |-> user_id,
                 conversation_id |-> conversation_id]
    IN /\ \/ /\ found = {}
             /\ ret' = call @@ [outcome |-> "RecordNotFoundError"]
          \/ \E k \in found :
                ret' = IF ConversationAttrs \subseteq DOMAIN table[k]
                          /\ Decodable(table[k].SK)
                       THEN call @@ [outcome |-> "ok",
                                     value |-> ConversationModelOf(table[k]),
                                     read |-> {k}]
                       ELSE call @@ [outcome |-> "KeyError", read |-> {k}]
       /\ tick' = 1 - tick
       /\ UNCHANGED <<table, hist, fbu, bd, batch_size, conc>>

\* ------------------------------------------------------------------ delete_conversation_by_id

\* The delete_item request.
DeleteRequest(user_id, conversation_id) ==
    [Key |-> <<user_id, compose_conv_id(user_id, conversation_id)>>,
     ConditionExpression |-> ExistsCondition]

\* The store's answer to a conditional write: an injected fault, a failed
\* condition, or acceptance.
WriteAnswer(tbl, request, fault) ==
    IF fault # NoFault THEN fault
    ELSE IF ~ConditionHolds(tbl, request.Key, request.ConditionExpression)
         THEN CondFailed
         ELSE NoFault

\* Mutant: the ClientError is swallowed.
DeleteOutcomeSwallowed(code) == IF code \in {NoFault, CondFailed} THEN "ok" ELSE code

\* except ClientError: a failed condition becomes RecordNotFoundError, any
\* other error is raised again; no error is success.
DeleteOutcome(code) ==
    IF code = NoFault THEN "ok"
    ELSE IF code = CondFailed THEN "RecordNotFoundError"
    ELSE code

delete_conversation_by_id(user_id, conversation_id, fault) ==
    LET request == DeleteRequest(user_id, conversation_id)
        code == WriteAnswer(table, request, fault)
    IN /\ table' = IF code = NoFault THEN RemoveItem(table, request.Key) ELSE table
       /\ ret' = [op |-> "delete_conversation_by_id", user_id |-> user_id,
                  conversation_id |-> conversation_id, store |-> code,
                  outcome |-> DeleteOutcome(code)]
       /\ hist' = IF DeleteOutcome(code) = "ok"
                  THEN Note(hist, <<user_id, conversation_id>>,
                            <<"deleted", fbu.pc = "loop" /\ fbu.user_id = user_id>>)
                  ELSE hist
       /\ tick' = 1 - tick
       /\ UNCHANGED <<fbu, bd, batch_size, conc>>

\* ------------------------------------------------------------------ change_conversation_title

\* Mutant: the update carries no ConditionExpression.
TitleRequestUnconditional(user_id, conversation_id, new_title) ==
    [Key |-> <<user_id, compose_conv_id(user_id, conversation_id)>>,
     attr |-> "Title",
     value |-> new_title,
     ConditionExpression |-> ""]

\* Mutant: the update expression sets the last-message pointer.
TitleRequestOtherAttribute(user_id, conversation_id, new_title) ==
    [Key |-> <<user_id, compose_conv_id(user_id, conversation_id)>>,
     attr |-> "LastMessageId",
     value |-> new_title,
     ConditionExpression |-> ExistsCondition]

\* The update_item request.
TitleRequest(user_id, conversation_id, new_title) ==
    [Key |-> <<user_id, compose_conv_id(user_id, conversation_id)>>,
     attr |-> "Title",
     value |-> new_title,
     ConditionExpression |-> ExistsCondition]

\* Mutant: every ClientError becomes RecordNotFoundError.
TitleOutcomeAlwaysNotFound(code) ==
    IF code = NoFault THEN "ok"
    ELSE IF code \in ClientErrors THEN "RecordNotFoundError"
    ELSE code

\* except ClientError: a failed condition becomes RecordNotFoundError, any
\* other error is raised again; no error is success.
TitleOutcome(code) ==
    IF code = NoFault THEN "ok"
    ELSE IF code = CondFailed THEN "RecordNotFoundError"
    ELSE code

change_conversation_title(user_id, conversation_id, new_title, fault) ==
    LET request == TitleRequest(user_id, conversation_id, new_title)
        code == WriteAnswer(table, request, fault)
    IN /\ table' = IF code = NoFault
                   THEN SetAttr(table, request.Key, request.attr, request.value)
                   ELSE table
       /\ ret' = [op |-> "change_conversation_title", user_id |-> user_id,
                  conversation_id |-> conversation_id, new_title |-> new_title,
                  store |-> code, outcome |-> TitleOutcome(code)]
       /\ hist' = IF TitleOutcome(code) = "ok"
                  THEN Note(hist, <<user_id, conversation_id>>, <<"titled">>)
                  ELSE hist
       /\ tick' = 1 - tick
       /\ UNCHANGED <<fbu, bd, batch_size, conc>>

\* ------------------------------------------------------------------ find_conversation_by_user_id

MAX_QUERY_COUNT == 5

\* query_params of find_conversation_by_user_id.
ListRequest(user_id) ==
    [user_id |-> user_id,
     prefix |-> user_id \o CONV_TAG,
     ScanIndexForward |-> FALSE,
     ExclusiveStartKey |-> None]

\* Whether item["MessageMap"] parses to an object popitem() can take a
\* member from.
HasModel(item) == "MessageMap" \in DOMAIN item /\ item.MessageMap # <<>>

\* Whether the other fields of a ConversationMeta can be read from an item.
HasMeta(item) ==
    /\ {"SK", "CreateTime", "Title", "BotId"} \subseteq DOMAIN item
    /\ Decodable(item.SK)

\* The model reported for an item of the first page: its own.
FirstPageModel(item) == popitem_model(item.MessageMap)

\* The model reported for the items of a later page: taken, before the page
\* is fetched, from the first item of the page before it.
NextPageModel(previous) == popitem_model(previous.Items[1].MessageMap)

ConversationMeta(item, model) ==
    [id |-> decompose_conv_id(item.SK),
     create_time |-> item.CreateTime,
     title |-> item.Title,
     model |-> model,
     bot_id |-> item.BotId]

\* What a call logs about one response (kept for the properties): the sort
\* keys of the page and whether it carried a LastEvaluatedKey.
PageLog(response) ==
    [sks |-> [i \in 1..Len(response.Items) |-> response.Items[i].SK],
     more |-> response.LastEvaluatedKey # None]

KeysOf(response) == {KeyOf(response.Items[i]) : i \in 1..Len(response.Items)}

\* The loop's exit test after a page has been added.
CapReached(query_count) == query_count > MAX_QUERY_COUNT

FbuIdle == [pc |-> "idle"]

FbuCall(user_id) == [op |-> "find_conversation_by_user_id", user_id |-> user_id]

\* The call ends with an exception of the given kind.
FbuRaise(user_id, kind, pages) ==
    /\ ret' = FbuCall(user_id) @@ [outcome |-> kind, pages |-> pages]
    /\ tick' = 1 - tick
    /\ fbu' = FbuIdle

\* The call returns the list.
FbuReturn(user_id, conversations, warned, pages, read) ==
    /\ ret' = FbuCall(user_id) @@ [outcome |-> "ok", value |-> conversations,
                                   warned |-> warned, pages |-> pages, read |-> read]
    /\ tick' = 1 - tick
    /\ fbu' = FbuIdle

\* From the call to the first test of the while loop: the first query and
\* the list comprehension over its items.
FbuFirst(user_id) ==
    LET query_params == ListRequest(user_id)
        r == Remaining(table, query_params)
    IN /\ fbu.pc = "idle"
       /\ \E shape \in PageChoices(r) :
             LET response == QueryPage(table, r, shape[1], shape[2])
                 items == response.Items
                 log == <<PageLog(response)>>
             IN IF \E i \in 1..Len(items) : ~HasModel(items[i]) \/ ~HasMeta(items[i])
                THEN FbuRaise(user_id, "KeyError", log)
                ELSE LET conversations == [i \in 1..Len(items) |->
                             ConversationMeta(items[i], FirstPageModel(items[i]))]
                     IN IF response.LastEvaluatedKey = None
                        THEN FbuReturn(user_id, conversations, FALSE, log,
                                       KeysOf(response))
                        ELSE /\ fbu' = [pc |-> "loop", user_id |-> user_id,
                                        query_params |-> query_params,
                                        response |-> response,
                                        conversations |-> conversations,
                                        query_count |-> 1,
                                        pages |-> log, read |-> KeysOf(response)]
                             /\ ret' = [op |-> "pending"]
                             /\ UNCHANGED tick
       /\ hist' = ListingCalled(hist, user_id)
       /\ UNCHANGED <<table, bd, batch_size, conc>>

\* One pass of the while loop: the response at hand carries a
\* LastEvaluatedKey.
FbuNext ==
    /\ fbu.pc = "loop"
    /\ IF ~HasModel(fbu.response.Items[1])
       THEN FbuRaise(fbu.user_id, "KeyError", fbu.pages)
       ELSE LET model == NextPageModel(fbu.response)
                query_params == [fbu.query_params EXCEPT
                                   !.ExclusiveStartKey = fbu.response.LastEvaluatedKey]
                r == Remaining(table, query_params)
            IN \E shape \in PageChoices(r) :
                  LET response == QueryPage(table, r, shape[1], shape[2])
                      items == response.Items
                      conversations == fbu.conversations
                          \o [i \in 1..Len(items) |-> ConversationMeta(items[i], model)]
                      query_count == fbu.query_count + 1
                      pages == Append(fbu.pages, PageLog(response))
                      read == fbu.read \cup KeysOf(response)
                  IN IF \E i \in 1..Len(items) : ~HasMeta(items[i])
                     THEN FbuRaise(fbu.user_id, "KeyError", pages)
                     ELSE IF CapReached(query_count)
                     THEN FbuReturn(fbu.user_id, conversations, TRUE, pages, read)
                     ELSE IF response.LastEvaluatedKey = None
                     THEN FbuReturn(fbu.user_id, conversations, FALSE, pages, read)
                     ELSE /\ fbu' = [fbu EXCEPT !.query_params = query_params,
                                                !.response = response,
                                                !.conversations = conversations,
                                                !.query_count = query_count,
                                                !.pages = pages,
                                                !.read = read]
                          /\ UNCHANGED <<ret, tick>>
    /\ UNCHANGED <<table, hist, bd, batch_size, conc>>

\* ------------------------------------------------------------------ delete_conversation_by_user_id

\* Mutant: the key condition lacks the conversation tag.
PurgeRequestWholePartition(user_id) ==
    [user_id |-> user_id,
     prefix |-> user_id,
     ScanIndexForward |-> TRUE,
     ExclusiveStartKey |-> None,
     ProjectionExpression |-> "SK"]

\* query_params of delete_conversation_by_user_id: no ScanIndexForward, so
\* the scan runs forward; only SK is projected.
PurgeRequest(user_id) ==
    [user_id |-> user_id,
     prefix |-> user_id \o CONV_TAG,
     ScanIndexForward |-> TRUE,
     ExclusiveStartKey |-> None,
     ProjectionExpression |-> "SK"]

\* The projection of an item on SK.
ProjectSK(item) == [SK |-> item.SK]

\* BatchWriteItem deletes, accepted: every key of the batch is removed.
RemoveItems(tbl, keys) == [k \in DOMAIN tbl \ keys |-> tbl[k]]

\* items[i : i + TRANSACTION_BATCH_SIZE], i counted from 0.
Batch(items, i, size) ==
    SubSeq(items, i + 1, IF i + size < Len(items) THEN i + size ELSE Len(items))

\* The keys delete_batch hands to the batch writer.
BatchKeys(user_id, batch) == {<<user_id, batch[j].SK>> : j \in 1..Len(batch)}

\* except ClientError: the error is logged and the function returns; an
\* exception of another class leaves the function.
PurgeOutcome(code) == IF code \in ClientErrors THEN "ok" ELSE code

BdIdle == [pc |-> "idle"]

\* Mutant: the scan stops after MAX_QUERY_COUNT queries, as the listing does.
PurgeDoneCapped(state) ==
    state.LastEvaluatedKey = None \/ state.queries >= MAX_QUERY_COUNT

\* if "LastEvaluatedKey" not in response: break
PurgeDone(state) == state.LastEvaluatedKey = None

\* The call ends after the given number of queries: normally, in the except
\* clause with the store's error, or with the exception the clause does not
\* catch.
BdFinish(code, queries) ==
    /\ ret' = [op |-> "delete_conversation_by_user_id", user_id |-> bd.user_id,
               outcome |-> IF code = NoFault THEN "ok" ELSE PurgeOutcome(code),
               fault |-> code, logged |-> code \in ClientErrors,
               before |-> bd.before, batches |-> bd.batches,
               queries |-> queries]
    /\ tick' = 1 - tick
    /\ bd' = BdIdle

\* The first query.
BdFirst(user_id, fault) ==
    LET query_params == PurgeRequest(user_id)
        r == Remaining(table, query_params)
    IN /\ bd.pc = "idle"
       /\ IF fault # NoFault
          THEN /\ ret' = [op |-> "delete_conversation_by_user_id", user_id |-> user_id,
                          outcome |-> PurgeOutcome(fault),
                          fault |-> fault, logged |-> fault \in ClientErrors,
                          before |-> Matching(table, user_id, user_id \o CONV_TAG), batches |-> <<>>, queries |-> 1]
               /\ tick' = 1 - tick
               /\ bd' = BdIdle
          ELSE \E shape \in PageChoices(r) :
                  LET response == QueryPage(table, r, shape[1], shape[2])
                  IN /\ bd' = [pc |-> "batches", user_id |-> user_id,
                               query_params |-> query_params,
                               items |-> [j \in 1..Len(response.Items) |->
                                             ProjectSK(response.Items[j])],
                               LastEvaluatedKey |-> response.LastEvaluatedKey,
                               i |-> 0, before |-> Matching(table, user_id, user_id \o CONV_TAG), batches |-> <<>>,
                               queries |-> 1]
                     /\ ret' = [op |-> "pending"]
                     /\ UNCHANGED tick
       /\ UNCHANGED <<table, hist, fbu, batch_size, conc>>

\* One pass of the for loop: delete_batch on the next batch of the page.
BdBatch(fault) ==
    LET batch == Batch(bd.items, bd.i, batch_size)
        keys == BatchKeys(bd.user_id, batch)
        pairs == {<<k[1], decompose_conv_id(k[2])>> :
                     k \in {j \in keys \cap DOMAIN table : Decodable(j[2])}}
    IN /\ bd.pc = "batches"
       /\ bd.i < Len(bd.items)
       /\ IF fault # NoFault
          THEN BdFinish(fault, bd.queries) /\ UNCHANGED <<table, hist>>
          ELSE /\ table' = RemoveItems(table, keys)
               /\ hist' = [q \in DOMAIN hist \cup pairs |->
                              IF q \in pairs THEN <<"purged">> ELSE hist[q]]
               /\ bd' = [bd EXCEPT !.i = bd.i + batch_size,
                                   !.batches = Append(bd.batches, keys)]
               /\ UNCHANGED <<ret, tick>>
       /\ UNCHANGED <<fbu, batch_size, conc>>

\* After the for loop: return if the response carried no LastEvaluatedKey,
\* else query the next page.
BdAdvance(fault) ==
    /\ bd.pc = "batches"
    /\ bd.i >= Len(bd.items)
    /\ IF PurgeDone(bd)
       THEN BdFinish(NoFault, bd.queries)
       ELSE IF fault # NoFault
       THEN BdFinish(fault, bd.queries + 1)
       ELSE LET query_params == [bd.query_params EXCEPT
                                   !.ExclusiveStartKey = bd.LastEvaluatedKey]
                r == Remaining(table, query_params)
            IN \E shape \in PageChoices(r) :
                  LET response == QueryPage(table, r, shape[1], shape[2])
                  IN /\ bd' = [bd EXCEPT
                                 !.query_params = query_params,
                                 !.items = [j \in 1..Len(response.Items) |->
                                               ProjectSK(response.Items[j])],
                                 !.LastEvaluatedKey = response.LastEvaluatedKey,
                                 !.i = 0,
                                 !.queries = bd.queries + 1]
                     /\ UNCHANGED <<ret, tick>>
    /\ UNCHANGED <<table, hist, fbu, batch_size, conc>>

\* ------------------------------------------------------------------ specifications

\* The (user, conversation id) pairs the calls of Spec address: the
\* conversations of two users under the same id.
SpecKeys == {<<u1, c1>>, <<u2, c1>>}

\* Conversations handed to store_conversation in Spec: two that differ in
\* every field; user u1 stores either, user u2 the second.
SpecConvs(key) ==
    IF key[1] = u1
    THEN {Conv(key[2], "t1", 1, MapGpt, "m1", None),
          Conv(key[2], "t2", 2, MapMixed, "m2", Some(b1))}
    ELSE {Conv(key[2], "t2", 2, MapMixed, "m2", Some(b1))}

\* Titles handed to change_conversation_title in Spec.
SpecTitles == {"t2"}

Init ==
    /\ table = << >>
    /\ ret = [op |-> "none"]
    /\ tick = 0
    /\ hist = << >>
    /\ fbu = FbuIdle
    /\ bd = BdIdle
    /\ batch_size = MaxBatchSize
    /\ conc = ConcOff

Put ==
    /\ \E key \in SpecKeys : \E conversation \in SpecConvs(key) :
          store_conversation(key[1], conversation, 1, NoFault)

FindById ==
    /\ \E key \in SpecKeys : find_conversation_by_id(key[1], key[2])

DeleteById ==
    /\ \E key \in SpecKeys : delete_conversation_by_id(key[1], key[2], NoFault)

UpdateTitle ==
    /\ \E key \in SpecKeys, new_title \in SpecTitles :
          change_conversation_title(key[1], key[2], new_title, NoFault)

FindByUserStart == \E user_id \in Users : FbuFirst(user_id)

FindByUserLoop == FbuNext

DeleteAllStart == \E user_id \in Users : BdFirst(user_id, NoFault)

DeleteAllBatch == BdBatch(NoFault)

DeleteAllAdvance == BdAdvance(NoFault)

\* The calls of the router, each by a request of its own: a listing and a
\* bulk delete go back to the store several times, and any other call may
\* be served between two of their store calls.
Next ==
    \/ Put
    \/ FindById
    \/ DeleteById
    \/ UpdateTitle
    \/ FindByUserStart
    \/ FindByUserLoop
    \/ DeleteAllStart
    \/ DeleteAllBatch
    \/ DeleteAllAdvance

Spec == Init /\ [][Next]_vars

\* ------------------------------------------------------------------ SpecBot

\* A bot record as the bot repository stores it.
BotItem(user_id, bot_id) ==
    [PK |-> user_id,
     SK |-> compose_bot_id(user_id, bot_id),
     Title |-> "bot",
     CreateTime |-> 0,
     LastUsedTime |-> 0]

\* Conversations handed to store_conversation in SpecBot: without a bot,
\* with the bot the user owns, with a bot that does not exist, and with an
\* empty bot id.
BotConvs ==
    {Conv(c1, "t1", 1, MapGpt, "m1", None),
     Conv(c1, "t2", 2, MapMixed, "m2", Some(b1)),
     Conv(c1, "t1", 2, MapClaude, "m1", Some(b2)),
     Conv(c1, "t2", 1, MapGpt, "m1", Some(<<>>))}

\* store_bot of the bot repository, as post_bot calls it: the bot record is
\* put with the create_time and the last_used_time of the bot handed in.
store_bot(user_id, bot_id, create_time, last_used_time) ==
    /\ table' = PutItem(table, [BotItem(user_id, bot_id) EXCEPT
                                  !.CreateTime = create_time,
                                  !.LastUsedTime = last_used_time])
    /\ ret' = [op |-> "store_bot", user_id |-> user_id, bot_id |-> bot_id,
               create_time |-> create_time, last_used_time |-> last_used_time,
               outcome |-> "ok"]
    /\ tick' = 1 - tick
    /\ UNCHANGED <<hist, fbu, bd, batch_size, conc>>

\* delete_bot_by_id of the bot repository, as delete_bot calls it: the same
\* conditional delete as delete_conversation_by_id, on the bot key.
delete_bot_by_id(user_id, bot_id) ==
    LET request == [Key |-> <<user_id, compose_bot_id(user_id, bot_id)>>,
                    ConditionExpression |-> ExistsCondition]
        code == WriteAnswer(table, request, NoFault)
    IN /\ table' = IF code = NoFault THEN RemoveItem(table, request.Key) ELSE table
       /\ ret' = [op |-> "delete_bot_by_id", user_id |-> user_id, bot_id |-> bot_id,
                  store |-> code, outcome |-> DeleteOutcome(code)]
       /\ tick' = 1 - tick
       /\ UNCHANGED <<hist, fbu, bd, batch_size, conc>>

\* User u1 owns bot b1.
InitBot ==
    /\ table = PutItem(<< >>, BotItem(u1, b1))
    /\ ret = [op |-> "none"]
    /\ tick = 0
    /\ hist = << >>
    /\ fbu = FbuIdle
    /\ bd = BdIdle
    /\ batch_size = MaxBatchSize
    /\ conc = ConcOff

BotPut ==
    \E conversation \in BotConvs, fault \in {NoFault, TxCanceled} :
        store_conversation(u1, conversation, 1, fault)

BotFindById == find_conversation_by_id(u1, c1)

BotDeleteById == delete_conversation_by_id(u1, c1, NoFault)

BotUpdateTitle == \E new_title \in SpecTitles :
    change_conversation_title(u1, c1, new_title, NoFault)

\* post_bot of the user's bot: the clock is read once for create_time (1)
\* and once more for last_used_time (the same or a later time).
BotPost == \E last_used_time \in Times : store_bot(u1, b1, 1, last_used_time)

\* delete_bot
BotRemove == delete_bot_by_id(u1, b1)

\* get_all_conversations
BotListStart == FbuFirst(u1)

BotListLoop == FbuNext

\* delete_all_conversations
BotDeleteAllStart == BdFirst(u1, NoFault)

BotDeleteAllBatch == BdBatch(NoFault)

BotDeleteAllAdvance == BdAdvance(NoFault)

NextBot ==
    \/ BotPut
    \/ BotFindById
    \/ BotDeleteById
    \/ BotUpdateTitle
    \/ BotPost
    \/ BotRemove
    \/ BotListStart
    \/ BotListLoop
    \/ BotDeleteAllStart
    \/ BotDeleteAllBatch
    \/ BotDeleteAllAdvance

SpecBot == InitBot /\ [][NextBot]_vars

\* ------------------------------------------------------------------ SpecList

Digits == <<"1", "2", "3", "4", "5", "6", "7", "8", "9">>

\* The i-th conversation id of a populated partition: "k1", "k2", ...
ListId(i) == <<"k", Digits[i]>>

\* The message maps of a populated partition's conversations.
ListMaps == {MapGpt, MapClaude, MapEmpty}

ListConv(i, message_map) ==
    Conv(ListId(i), "t1", i, message_map,
         IF message_map = <<>> THEN "" ELSE message_map[Len(message_map)][1], None)

\* What k calls of store_conversation leave in the partition of u1 (the
\* conversations with an odd number carry one message map, those with an
\* even number another), beside a bot of u1 and a conversation of u2.
Populated(k, odd, even) ==
    LET items == {ConversationItem(u1, ListConv(i, IF i % 2 = 1 THEN odd ELSE even)) :
                     i \in 1..k}
                 \cup {BotItem(u1, b1), ConversationItem(u2, ListConv(1, MapGpt))}
    IN [key \in {KeyOf(item) : item \in items} |->
           CHOOSE item \in items : KeyOf(item) = key]

InitList ==
    /\ \E k \in 0..MaxConvs, odd \in ListMaps, even \in ListMaps :
          table = Populated(k, odd, even)
    /\ ret = [op |-> "none"]
    /\ tick = 0
    /\ hist = << >>
    /\ fbu = FbuIdle
    /\ bd = BdIdle
    /\ batch_size = MaxBatchSize
    /\ conc = ConcOff

ListStart == \E user_id \in Users : FbuFirst(user_id)

ListLoop == FbuNext

NextList ==
    \/ ListStart
    \/ ListLoop

SpecList == InitList /\ [][NextList]_vars

\* ------------------------------------------------------------------ SpecBulk

StoreFaults == {NoFault, Throttled, ConnectionFailed}

InitBulk ==
    /\ \E k \in 0..MaxConvs : table = Populated(k, MapGpt, MapClaude)
    /\ ret = [op |-> "none"]
    /\ tick = 0
    /\ hist = << >>
    /\ fbu = FbuIdle
    /\ bd = BdIdle
    /\ batch_size \in 1..MaxBatchSize
    /\ conc = ConcOff

BulkStart == \E user_id \in Users, fault \in StoreFaults : BdFirst(user_id, fault)

BulkBatch == \E fault \in StoreFaults : BdBatch(fault)

BulkAdvance == \E fault \in StoreFaults : BdAdvance(fault)

NextBulk ==
    \/ BulkStart
    \/ BulkBatch
    \/ BulkAdvance

SpecBulk == InitBulk /\ [][NextBulk]_vars

\* ------------------------------------------------------------------ SpecPurge

\* One bulk delete on a populated table, against a store that answers every
\* call, with no other writer.  A call in progress goes on: each of its steps is a blocking
\* store call that returns.
PurgeStart ==
    /\ ret.op = "none"
    /\ \E user_id \in Users : BdFirst(user_id, NoFault)

PurgeBatch == BdBatch(NoFault)

PurgeAdvance == BdAdvance(NoFault)

NextPurge ==
    \/ PurgeStart
    \/ PurgeBatch
    \/ PurgeAdvance

SpecPurge ==
    /\ InitBulk
    /\ [][NextPurge]_vars
    /\ WF_vars(PurgeBatch)
    /\ WF_vars(PurgeAdvance)

\* ------------------------------------------------------------------ SpecConc

\* Two callers, each running one of store_conversation,
\* delete_conversation_by_id and change_conversation_title.  Each function
\* makes one store call; the store serves a delete or an update in one step
\* and a transactional write in two (it takes the items, then writes them),
\* and rejects a write on an item that an open transaction holds.
PutOp(user_id, conversation) ==
    [kind |-> "store_conversation", user_id |-> user_id,
     conversation_id |-> conversation.id, conversation |-> conversation]

DeleteOp(user_id, conversation_id) ==
    [kind |-> "delete_conversation_by_id", user_id |-> user_id,
     conversation_id |-> conversation_id]

TitleOp(user_id, conversation_id, new_title) ==
    [kind |-> "change_conversation_title", user_id |-> user_id,
     conversation_id |-> conversation_id, new_title |-> new_title]

ConcOps ==
    {PutOp(u1, Conv(c1, "t1", 1, MapGpt, "m1", Some(b1))),
     PutOp(u1, Conv(c2, "t2", 2, MapMixed, "m2", Some(b1))),
     PutOp(u1, Conv(c2, "t1", 1, MapClaude, "m1", None)),
     PutOp(u2, Conv(c1, "t2", 2, MapGpt, "m1", None)),
     DeleteOp(u1, c1), DeleteOp(u1, c2),
     TitleOp(u1, c1, "t2"), TitleOp(u1, c2, "t2")}

\* The tables the two callers start on: the user's bot alone, or with both
\* of the user's conversations stored.
ConcTables ==
    LET bot == PutItem(<< >>, BotItem(u1, b1))
    IN {bot,
        PutItem(PutItem(bot, ConversationItem(u1, Conv(c1, "t1", 1, MapGpt, "m1", None))),
                ConversationItem(u1, Conv(c2, "t1", 1, MapGpt, "m1", None)))}

Procs == {1, 2}

\* get_current_time() of a caller.
ConcTime(p) == p

ConcTransaction(p) ==
    transact_items(conc.ops[p].user_id, conc.ops[p].conversation, ConcTime(p))

\* The keys of the items a transactional write names.
TxKeys(items) ==
    {IF items[i].kind = "Put" THEN KeyOf(items[i].Item) ELSE items[i].Key :
        i \in 1..Len(items)}

\* The keys held by the store's open transactions.
Held == UNION {TxKeys(ConcTransaction(p)) : p \in {q \in Procs : conc.pc[q] = "taken"}}

ConcEnd(p, outcome, step) ==
    conc' = [conc EXCEPT !.pc[p] = "done", !.out[p] = outcome,
                         !.log = Append(conc.log, <<p, step>>)]

\* store_conversation, first half of the store's work: the transaction is
\* cancelled if one of its items is held, else it takes its items.
ConcPutTake(p) ==
    /\ conc.pc # "off" /\ conc.pc[p] = "ready"
    /\ conc.ops[p].kind = "store_conversation"
    /\ IF TxKeys(ConcTransaction(p)) \cap Held # {}
       THEN ConcEnd(p, TxCanceled, "cancelled")
       ELSE conc' = [conc EXCEPT !.pc[p] = "taken",
                                 !.log = Append(conc.log, <<p, "taken">>)]
    /\ UNCHANGED <<table, ret, tick, hist, fbu, bd, batch_size>>

\* store_conversation, second half: the writes are applied together and the
\* call returns.
ConcPutWrite(p) ==
    /\ conc.pc # "off" /\ conc.pc[p] = "taken"
    /\ table' = TransactWriteItems(table, ConcTransaction(p))
    /\ ConcEnd(p, "ok", "written")
    /\ UNCHANGED <<ret, tick, hist, fbu, bd, batch_size>>

ConcDelete(p) ==
    LET op == conc.ops[p]
        request == DeleteRequest(op.user_id, op.conversation_id)
        code == WriteAnswer(table, request,
                            IF request.Key \in Held THEN TxConflict ELSE NoFault)
    IN /\ conc.pc # "off" /\ conc.pc[p] = "ready"
       /\ op.kind = "delete_conversation_by_id"
       /\ table' = IF code = NoFault THEN RemoveItem(table, request.Key) ELSE table
       /\ ConcEnd(p, DeleteOutcome(code), "written")
       /\ UNCHANGED <<ret, tick, hist, fbu, bd, batch_size>>

ConcTitle(p) ==
    LET op == conc.ops[p]
        request == TitleRequest(op.user_id, op.conversation_id, op.new_title)
        code == WriteAnswer(table, request,
                            IF request.Key \in Held THEN TxConflict ELSE NoFault)
    IN /\ conc.pc # "off" /\ conc.pc[p] = "ready"
       /\ op.kind = "change_conversation_title"
       /\ table' = IF code = NoFault
                   THEN SetAttr(table, request.Key, request.attr, request.value)
                   ELSE table
       /\ ConcEnd(p, TitleOutcome(code), "written")
       /\ UNCHANGED <<ret, tick, hist, fbu, bd, batch_size>>

InitConc ==
    /\ table \in ConcTables
    /\ ret = [op |-> "none"]
    /\ tick = 0
    /\ hist = << >>
    /\ fbu = FbuIdle
    /\ bd = BdIdle
    /\ batch_size = MaxBatchSize
    /\ \E op1 \in ConcOps, op2 \in ConcOps :
          conc = [pc |-> <<"ready", "ready">>, ops |-> <<op1, op2>>,
                  out |-> <<"", "">>, init |-> table, log |-> <<>>]

ConcPutTakes == \E p \in Procs : ConcPutTake(p)

ConcPutWrites == \E p \in Procs : ConcPutWrite(p)

ConcDeletes == \E p \in Procs : ConcDelete(p)

ConcTitles == \E p \in Procs : ConcTitle(p)

NextConc ==
    \/ ConcPutTakes
    \/ ConcPutWrites
    \/ ConcDeletes
    \/ ConcTitles

SpecConc == InitConc /\ [][NextConc]_vars

\* ------------------------------------------------------------------ SpecCodec

\* User ids and conversation ids as the repository functions accept them:
\* any strings.  One user id is plain, one contains the conversation tag;
\* the conversation ids contain the separator, one of them the bot tag, and
\* one the conversation tag: c5 under u0 has the sort key of c2 under u3.
u0 == <<"u">>
u3 == <<"u", "#", "C", "O", "N", "V", "#", "k">>
CodecUsers == {u0, u3}

c4 == <<"k", "#", "B", "O", "T", "#", "b", "1">>
c5 == <<"k", "#", "C", "O", "N", "V", "#", "d", "#">>
CodecConvIds == {c2, c4, c5}

CodecBots == {b1, b2}

InitCodec ==
    /\ table = << >>
    /\ ret = [op |-> "none"]
    /\ tick = 0
    /\ hist = << >>
    /\ fbu = FbuIdle
    /\ bd = BdIdle
    /\ batch_size = MaxBatchSize
    /\ conc = ConcOff

CodecPut ==
    /\ \E user_id \in CodecUsers, id \in CodecConvIds :
          store_conversation(user_id, Conv(id, "t1", 1, MapGpt, "m1", None), 1, NoFault)

CodecFindById ==
    /\ \E user_id \in CodecUsers, id \in CodecConvIds :
          find_conversation_by_id(user_id, id)

CodecListStart == \E user_id \in CodecUsers : FbuFirst(user_id)

CodecListLoop == FbuNext

NextCodec ==
    \/ CodecPut
    \/ CodecFindById
    \/ CodecListStart
    \/ CodecListLoop

SpecCodec == InitCodec /\ [][NextCodec]_vars

\* ------------------------------------------------------------------ SpecFault

\* The single-item writes against a store whose calls may fail: with a
\* ClientError of another code than the failed condition (throttling), or
\* without reaching the store.
FaultKeys == {<<u1, c1>>, <<u1, c2>>}

FaultPut ==
    \E key \in FaultKeys :
        store_conversation(key[1], Conv(key[2], "t1", 1, MapGpt, "m1", None), 1, NoFault)

FaultDelete ==
    \E key \in FaultKeys, fault \in StoreFaults :
        delete_conversation_by_id(key[1], key[2], fault)

FaultTitle ==
    \E key \in FaultKeys, new_title \in SpecTitles, fault \in StoreFaults :
        change_conversation_title(key[1], key[2], new_title, fault)

NextFault ==
    \/ FaultPut
    \/ FaultDelete
    \/ FaultTitle

SpecFault == Init /\ [][NextFault]_vars

\* ------------------------------------------------------------------ SpecRace

\* The writes of one user on the same conversations, interleaved: the
\* single-item writes and the transactional put are served by the store in
\* one step each; the bulk delete runs between them, one store call at a
\* time, and any of its calls may fail.
RaceKeys == {<<u1, c1>>, <<u1, c2>>}

RacePut ==
    \E key \in RaceKeys :
        store_conversation(key[1], Conv(key[2], "t1", 1, MapGpt, "m1", None), 1, NoFault)

RaceTitle ==
    \E key \in RaceKeys, new_title \in SpecTitles :
        change_conversation_title(key[1], key[2], new_title, NoFault)

RaceDelete ==
    \E key \in RaceKeys : delete_conversation_by_id(key[1], key[2], NoFault)

RaceBulkStart == \E fault \in StoreFaults : BdFirst(u1, fault)

RaceBulkBatch == \E fault \in StoreFaults : BdBatch(fault)

RaceBulkAdvance == \E fault \in StoreFaults : BdAdvance(fault)

NextRace ==
    \/ RacePut
    \/ RaceTitle
    \/ RaceDelete
    \/ RaceBulkStart
    \/ RaceBulkBatch
    \/ RaceBulkAdvance

SpecRace == Init /\ [][NextRace]_vars

\* ------------------------------------------------------------------ properties

\* The table key a call on (user_id, conversation_id) addresses.
TargetKey(call) == <<call.user_id, compose_conv_id(call.user_id, call.conversation_id)>>

\* The (user id, conversation id) pair of a call.
TargetPair(call) == <<call.user_id, call.conversation_id>>

\* Whether the item under a key differs between two tables.
Changed(old, new, k) ==
    \/ (k \in DOMAIN old) # (k \in DOMAIN new)
    \/ k \in DOMAIN old /\ k \in DOMAIN new /\ old[k] # new[k]

C3_Step ==
    (/\ tick' # tick
     /\ ret'.op \in {"delete_conversation_by_id", "change_conversation_title"}
     /\ TargetKey(ret') \notin DOMAIN table)
    => (ret'.outcome = "RecordNotFoundError" /\ table' = table)

\* C3: delete_conversation_by_id and change_conversation_title called on a
\* (user id, conversation id) that has no item fail with RecordNotFoundError
\* and leave the table as it was; change_conversation_title creates no item.
C3_NotFoundContract == [][C3_Step]_vars

\* A title change was refused for a missing conversation while the table
\* holds other items.
C3_Witness ==
    /\ ret.op = "change_conversation_title"
    /\ ret.outcome = "RecordNotFoundError"
    /\ TargetKey(ret) \notin DOMAIN table
    /\ table # << >>

StepUser == IF tick' # tick THEN ret'.user_id ELSE bd.user_id

C5_Step ==
    /\ (tick' # tick /\ "read" \in DOMAIN ret') =>
           \A k \in ret'.read : k[1] = ret'.user_id
    /\ fbu'.pc = "loop" => \A k \in fbu'.read : k[1] = fbu'.user_id
    /\ \A k \in DOMAIN table \cup DOMAIN table' :
          Changed(table, table', k) => k[1] = StepUser

\* C5: every item a call made with user id A gets from the store
\* (find_conversation_by_id, find_conversation_by_user_id, page by page) has
\* PK A, and every item a call made with user id A writes, updates or
\* deletes (delete_conversation_by_user_id batch by batch) has PK A, also
\* when another user holds a conversation with the same id.
C5_PartitionIsolation == [][C5_Step]_vars

C10_Step ==
    tick' # tick =>
        /\ (ret'.op \in {"find_conversation_by_id", "delete_conversation_by_id"}
            /\ Noted(TargetPair(ret'), "deleted"))
           => ret'.outcome = "RecordNotFoundError"
        /\ (ret'.op = "find_conversation_by_user_id" /\ ret'.outcome = "ok")
           => \A i \in 1..Len(ret'.value) :
                 LET pair == <<ret'.user_id, ret'.value[i].id>>
                 IN ~(pair \in DOMAIN hist' /\ hist'[pair] = <<"deleted", FALSE>>)

ListingAcrossDelete ==
    /\ ret.op = "find_conversation_by_user_id" /\ ret.outcome = "ok"
    /\ \E i \in 1..Len(ret.value) :
          LET pair == <<ret.user_id, ret.value[i].id>>
          IN pair \in DOMAIN hist /\ hist[pair] = <<"deleted", TRUE>>

\* A listing called after the delete of the user's only conversation
\* returned the empty list.
ListingAfterDelete ==
    /\ ret.op = "find_conversation_by_user_id" /\ ret.outcome = "ok"
    /\ ret.value = <<>>
    /\ \E p \in DOMAIN hist : p[1] = ret.user_id /\ hist[p] = <<"deleted", FALSE>>

\* A bot record: an item whose sort key carries the bot tag.
IsBotKey(k) == StartsWith(k[2], k[1] \o BOT_TAG)

\* The table key of the bot a conversation refers to.
BotKey(user_id, conversation) ==
    <<user_id, compose_bot_id(user_id, conversation.bot_id[1])>>

ConvKey(user_id, conversation) ==
    <<user_id, compose_conv_id(user_id, conversation.id)>>

\* A step that completes store_conversation.
PutStep == tick' # tick /\ ret'.op = "store_conversation"

C1_Step ==
    (PutStep /\ Truthy(ret'.conversation.bot_id)) =>
        LET ck == ConvKey(ret'.user_id, ret'.conversation)
            bk == BotKey(ret'.user_id, ret'.conversation)
        IN /\ \/ /\ ret'.outcome = "ok"
                 /\ table'[ck] = ConversationItem(ret'.user_id, ret'.conversation)
                 /\ Changed(table, table', bk)
              \/ /\ ret'.outcome # "ok"
                 /\ table' = table
           /\ bk \notin DOMAIN table => (ret'.outcome # "ok" /\ table' = table)

\* C1: store_conversation with a bot_id either writes the conversation item
\* and updates the bot item, or changes neither; when the bot does not
\* exist the call fails and writes no conversation item.
C1_Atomicity == [][C1_Step]_vars

C8_OriginalStep ==
    PutStep =>
        IF Truthy(ret'.conversation.bot_id)
        THEN ret'.outcome = "ok" =>
                LET bk == BotKey(ret'.user_id, ret'.conversation)
                IN /\ bk \in DOMAIN table'
                   /\ "LastUsedTime" \in DOMAIN table'[bk]
                   /\ table'[bk].LastUsedTime = ret'.current_time
        ELSE \A k \in DOMAIN table \cup DOMAIN table' :
                IsBotKey(k) => ~Changed(table, table', k)

\* C8 as claimed: a successful store_conversation with bot_id b sets the
\* attribute LastUsedTime of the bot record to the current time.
C8_LastUsedTime == [][C8_OriginalStep]_vars

C8_Step ==
    PutStep =>
        IF Truthy(ret'.conversation.bot_id)
        THEN ret'.outcome = "ok" =>
                LET bk == BotKey(ret'.user_id, ret'.conversation)
                IN /\ bk \in DOMAIN table'
                   /\ "LastBotUsed" \in DOMAIN table'[bk]
                   /\ table'[bk].LastBotUsed = ret'.current_time
                   /\ bk \in DOMAIN table =>
                         \A a \in DOMAIN table[bk] \ {"LastBotUsed"} :
                            a \in DOMAIN table'[bk] /\ table'[bk][a] = table[bk][a]
                   /\ \A k \in DOMAIN table \cup DOMAIN table' :
                         (IsBotKey(k) /\ k # bk) => ~Changed(table, table', k)
        ELSE \A k \in DOMAIN table \cup DOMAIN table' :
                IsBotKey(k) => ~Changed(table, table', k)

\* C8 (amended): a successful store_conversation with a non-empty bot_id b
\* sets the attribute LastBotUsed of the item under the bot key of
\* (user_id, b) to the current time of the call and leaves the item's other
\* attributes, LastUsedTime among them, and every other bot record as they
\* were; with bot_id None (or empty) no bot record changes.
C8_LastBotUsed == [][C8_Step]_vars

\* The user's bot was stamped with the time of a store, which differs from
\* the conversation's create_time; its LastUsedTime is as it was created.
C8_Witness ==
    /\ ret.op = "store_conversation" /\ ret.outcome = "ok"
    /\ ret.conversation.bot_id = Some(b1)
    /\ ret.current_time # ret.conversation.create_time
    /\ table[<<u1, compose_bot_id(u1, b1)>>].LastBotUsed = ret.current_time
    /\ table[<<u1, compose_bot_id(u1, b1)>>].LastUsedTime = 0

\* A step-free view of a finished listing: the call returned a list.
Listed == ret.op = "find_conversation_by_user_id" /\ ret.outcome = "ok"

\* The user's conversations span more than n pages: the n-th response
\* carried a LastEvaluatedKey.
SpansMoreThan(pages, n) == Len(pages) >= n /\ pages[n].more

RECURSIVE Concat(_, _)
\* The first n sequences of a sequence of sequences, concatenated.
Concat(seqs, n) == IF n = 0 THEN <<>> ELSE Concat(seqs, n - 1) \o seqs[n]

\* The sort keys of the first n pages a listing was answered with.
FirstPages(pages, n) == Concat([i \in 1..Len(pages) |-> pages[i].sks], n)

\* C2: when the user's conversations span more than 5 pages,
\* find_conversation_by_user_id queries exactly 5 pages, returns exactly the
\* items of these 5 pages and logs a warning.
C2_PaginationCap ==
    (Listed /\ SpansMoreThan(ret.pages, 5)) =>
        /\ Len(ret.pages) = 5
        /\ ret.warned
        /\ [i \in 1..Len(ret.value) |-> compose_conv_id(ret.user_id, ret.value[i].id)]
              = FirstPages(ret.pages, 5)

\* C7: the model of every summary find_conversation_by_user_id returns is
\* the model of a message of that conversation's stored message map.
C7_ModelTag ==
    Listed =>
        \A i \in 1..Len(ret.value) :
            ret.value[i].model \in
                ModelsOf(table[<<ret.user_id,
                                 compose_conv_id(ret.user_id, ret.value[i].id)>>].MessageMap)

\* C9: find_conversation_by_user_id never raises: whatever the message maps
\* of the stored conversations and however the store pages the result, it
\* returns a list after at most MAX_QUERY_COUNT + 1 queries.
C9_NeverRaises ==
    ret.op = "find_conversation_by_user_id" =>
        (ret.outcome = "ok" /\ Len(ret.pages) <= MAX_QUERY_COUNT + 1)

\* The keys of a sequence of batches.
AllKeys(batches) == UNION {batches[j] : j \in 1..Len(batches)}

\* What the bulk delete leaves behind when it stops: exactly the keys of the
\* batches deleted so far are gone (each batch holds at most
\* TRANSACTION_BATCH_SIZE keys of the table, no key twice) and every other
\* conversation key the user held when the call began is still there.
OnlyBatchesRemoved ==
    /\ Matching(table, ret.user_id, ret.user_id \o CONV_TAG)
          = ret.before \ AllKeys(ret.batches)
    /\ \A j \in 1..Len(ret.batches) :
          /\ ret.batches[j] \subseteq ret.before
          /\ Cardinality(ret.batches[j]) \in 1..batch_size
          /\ \A i \in 1..Len(ret.batches) : i # j =>
                ret.batches[i] \cap ret.batches[j] = {}

\* C6: when a storage failure stops delete_conversation_by_user_id after some
\* batches have been deleted, exactly the items of these batches are gone,
\* the remaining conversations are left in the table, and the call returns
\* without raising.
C6_BulkDeleteBestEffort ==
    (/\ ret.op = "delete_conversation_by_user_id"
     /\ ret.fault # NoFault
     /\ Len(ret.batches) >= 1) =>
        /\ ret.outcome = "ok"
        /\ OnlyBatchesRemoved

\* The part of C6 the except clause delivers: a failure the store client
\* raises as ClientError is logged, the call returns, and only the batches
\* deleted before it are gone; any stop leaves only these batches removed.
BulkDeleteOnClientError ==
    (ret.op = "delete_conversation_by_user_id") =>
        /\ OnlyBatchesRemoved
        /\ ret.fault \in ClientErrors => (ret.outcome = "ok" /\ ret.logged)

\* A ClientError stopped the bulk delete after two batches, with
\* conversations of the user left in the table.
BulkDeleteOnClientError_Witness ==
    /\ ret.op = "delete_conversation_by_user_id"
    /\ ret.fault \in ClientErrors
    /\ Len(ret.batches) = 2
    /\ Matching(table, ret.user_id, ret.user_id \o CONV_TAG) # {}

C11_Step ==
    (tick' # tick /\ ret'.op = "change_conversation_title") =>
        LET k == TargetKey(ret')
        IN /\ (k \in DOMAIN table /\ ret'.store \notin ClientErrors \cup {ConnectionFailed})
                 => ret'.outcome = "ok"
           /\ ret'.outcome = "ok" =>
                 /\ k \in DOMAIN table
                 /\ DOMAIN table' = DOMAIN table
                 /\ table'[k].Title = ret'.new_title
                 /\ DOMAIN table'[k] = DOMAIN table[k]
                 /\ \A a \in DOMAIN table[k] \ {"Title"} : table'[k][a] = table[k][a]
                 /\ \A j \in DOMAIN table \ {k} : table'[j] = table[j]

\* C11: change_conversation_title on an existing conversation sets the
\* item's Title to the new title and leaves the item's other attributes
\* (CreateTime, MessageMap, LastMessageId, BotId, the key) and every other
\* item of the table as they were.
C11_TitleOnly == [][C11_Step]_vars

\* A conversation stored with title "t1" carries the new title and its
\* other attributes as stored, beside another item in the table.
C11_Witness ==
    /\ ret.op = "change_conversation_title" /\ ret.outcome = "ok"
    /\ table[TargetKey(ret)].Title = ret.new_title
    /\ table[TargetKey(ret)].CreateTime = 1
    /\ table[TargetKey(ret)].MessageMap = dumps_message_map(MapGpt)
    /\ Cardinality(DOMAIN table) >= 2

\* The conversation items of a user.
ConversationsOf(tbl, user_id) == Matching(tbl, user_id, user_id \o CONV_TAG)

\* delete_conversation_by_user_id has returned.
PurgeReturned == bd.pc = "idle" /\ ret.op = "delete_conversation_by_user_id"

\* C12: with a store that answers every call and no other writer,
\* delete_conversation_by_user_id returns, and when it has returned no
\* conversation item of the user remains, however many conversations and
\* pages (more than 5 too) there are and whatever the batch limit.
C12_PurgeComplete ==
    /\ [](PurgeReturned => ConversationsOf(table, ret.user_id) = {})
    /\ [](bd.pc = "batches" => <>PurgeReturned)

\* A bulk delete returned after more than MAX_QUERY_COUNT queries, having
\* removed six or more conversations.
C12_Witness ==
    /\ PurgeReturned
    /\ ret.queries > MAX_QUERY_COUNT
    /\ Cardinality(AllKeys(ret.batches)) >= 6
    /\ ConversationsOf(table, ret.user_id) = {}

\* The user's conversations fit within the page cap: the call was answered
\* with at most MAX_QUERY_COUNT pages, the last of them without a
\* LastEvaluatedKey.
FitsCap(pages) ==
    /\ Len(pages) <= MAX_QUERY_COUNT
    /\ ~pages[Len(pages)].more

\* The ids of a user's conversation items in descending order of sort key.
ExpectedListing(tbl, user_id) ==
    LET keys == Sorted(ConversationsOf(tbl, user_id), FALSE)
    IN [i \in 1..Len(keys) |-> decompose_conv_id(keys[i][2])]

\* The ids of the summaries a listing returned, in order.
ListedIds(value) == [i \in 1..Len(value) |-> value[i].id]

\* C13: when the user's conversations fit within the page cap,
\* find_conversation_by_user_id returns one summary for each conversation
\* item of the user, each once, none for a bot record, in descending order
\* of sort key over the whole list.
C13_ListingExact ==
    (ret.op = "find_conversation_by_user_id" /\ FitsCap(ret.pages)) =>
        /\ ret.outcome = "ok"
        /\ ListedIds(ret.value) = ExpectedListing(table, ret.user_id)

\* The part of C13 that holds: a listing that returns, and was not cut by
\* the cap, is exact.
ListingExactWhenReturned ==
    (Listed /\ ~ret.pages[Len(ret.pages)].more) =>
        ListedIds(ret.value) = ExpectedListing(table, ret.user_id)

\* Three or more conversations were listed over two or more pages.
ListingExactWhenReturned_Witness ==
    /\ Listed /\ ~ret.pages[Len(ret.pages)].more
    /\ Len(ret.pages) >= 2
    /\ Len(ret.value) >= 3

\* The item under a key, if any.
ItemAt(tbl, k) == IF k \in DOMAIN tbl THEN Some(tbl[k]) ELSE None

\* The key of the conversation a caller's write addresses.
OpKey(op) == <<op.user_id, compose_conv_id(op.user_id, op.conversation_id)>>

\* The outcome of a write run alone on a table.
AloneOutcome(op, tbl) ==
    IF op.kind = "store_conversation" THEN "ok"
    ELSE IF op.kind = "delete_conversation_by_id"
    THEN DeleteOutcome(WriteAnswer(tbl, DeleteRequest(op.user_id, op.conversation_id),
                                   NoFault))
    ELSE TitleOutcome(WriteAnswer(tbl, TitleRequest(op.user_id, op.conversation_id,
                                                    op.new_title), NoFault))

\* The table a write run alone leaves.
AloneTable(op, tbl) ==
    IF AloneOutcome(op, tbl) # "ok" THEN tbl
    ELSE IF op.kind = "store_conversation"
    THEN TransactWriteItems(tbl, transact_items(op.user_id, op.conversation, 1))
    ELSE IF op.kind = "delete_conversation_by_id"
    THEN RemoveItem(tbl, OpKey(op))
    ELSE SetAttr(tbl, OpKey(op), "Title", op.new_title)

\* Both callers have returned.
ConcDone == conc.pc = <<"done", "done">>

\* Each caller's write ended as it would have run alone: same outcome, same
\* final state of its conversation.
AsAlone ==
    \A p \in Procs :
        /\ conc.out[p] = AloneOutcome(conc.ops[p], conc.init)
        /\ ItemAt(table, OpKey(conc.ops[p]))
              = ItemAt(AloneTable(conc.ops[p], conc.init), OpKey(conc.ops[p]))

\* Two store_conversation calls of one user that name the same bot.
SharedBot(op1, op2) ==
    /\ op1.kind = "store_conversation" /\ op2.kind = "store_conversation"
    /\ op1.user_id = op2.user_id
    /\ Truthy(op1.conversation.bot_id)
    /\ op1.conversation.bot_id = op2.conversation.bot_id

\* C14 as claimed: two writes on different conversation ids, two
\* store_conversation calls that name the same bot included, each end as if
\* run alone, however they interleave.
C14_IndependentWrites ==
    (ConcDone /\ conc.ops[1].conversation_id # conc.ops[2].conversation_id) => AsAlone

\* C14 (amended): two writes on different conversation ids that are not two
\* store_conversation calls of one user naming the same bot each end as if
\* run alone, however they interleave.
C14_IndependentUnlessSharedBot ==
    (/\ ConcDone
     /\ conc.ops[1].conversation_id # conc.ops[2].conversation_id
     /\ ~SharedBot(conc.ops[1], conc.ops[2])) => AsAlone

\* A store_conversation naming the bot and a delete of another stored
\* conversation both succeeded, the delete served while the transaction
\* held its items.
C14_Witness ==
    /\ ConcDone
    /\ conc.ops[1].kind = "store_conversation"
    /\ Truthy(conc.ops[1].conversation.bot_id)
    /\ conc.ops[2].kind = "delete_conversation_by_id"
    /\ conc.ops[1].conversation_id # conc.ops[2].conversation_id
    /\ conc.out = <<"ok", "ok">>
    /\ conc.log = << <<1, "taken">>, <<2, "written">>, <<1, "written">> >>

\* A user id without the key separator.
NoSeparator(user_id) == \A i \in 1..Len(user_id) : user_id[i] # "#"

\* The id find_conversation_by_id reports for a stored conversation is the
\* id it was stored under.
FindByIdReportsId ==
    (/\ ret.op = "find_conversation_by_id" /\ ret.outcome = "ok"
     /\ Noted(TargetPair(ret), "put"))
    => ret.value.id = ret.conversation_id

\* The id find_conversation_by_user_id reports for each listed item is the
\* id the item was stored under.
ListReportsIds ==
    Listed =>
        LET sks == FirstPages(ret.pages, Len(ret.pages))
        IN \A i \in 1..Len(ret.value) : \A id \in CodecConvIds :
              compose_conv_id(ret.user_id, id) = sks[i] => ret.value[i].id = id

\* The key of a stored conversation is the bot key of nobody.
NoTagCollision(users) ==
    \A p \in DOMAIN hist : p[1] \in users =>
        \A user_id \in users, bot_id \in CodecBots :
            compose_conv_id(p[1], p[2]) # compose_bot_id(user_id, bot_id)

\* C15 as claimed: for every user id and every conversation id, ids with the
\* separator included, find_conversation_by_id and
\* find_conversation_by_user_id report the id a conversation was stored
\* under, and no conversation key equals a bot key.
C15_CodecReversible ==
    /\ FindByIdReportsId
    /\ ListReportsIds
    /\ NoTagCollision(CodecUsers)

\* C15 (amended): for user ids without the separator and every conversation
\* id, ids with the separator included, find_conversation_by_id and
\* find_conversation_by_user_id report the id a conversation was stored
\* under, and no conversation key equals a bot key.
C15_CodecReversibleForPlainUsers ==
    /\ (ret.op \in {"find_conversation_by_id", "find_conversation_by_user_id"}
        /\ NoSeparator(ret.user_id)) => (FindByIdReportsId /\ ListReportsIds)
    /\ NoTagCollision({user_id \in CodecUsers : NoSeparator(user_id)})

\* The plain user's two conversations, whose ids contain the separator,
\* were listed under their ids while the other user holds a conversation.
C15_Witness ==
    /\ Listed
    /\ ret.user_id = u0
    /\ {ret.value[i].id : i \in 1..Len(ret.value)} = CodecConvIds
    /\ \E k \in DOMAIN table : k[1] = u3

C16_Step ==
    (/\ tick' # tick
     /\ ret'.op \in {"delete_conversation_by_id", "change_conversation_title"}
     /\ ret'.store \notin {NoFault, CondFailed})
    => (ret'.outcome = ret'.store /\ table' = table)

\* C16: when delete_conversation_by_id or change_conversation_title meets a
\* store error other than the failed existence condition, that error reaches
\* the caller as it is (not as RecordNotFoundError, not swallowed) and the
\* addressed item stays as it was.
C16_OtherErrorsPropagate == [][C16_Step]_vars

\* A title change on a stored conversation was throttled: the caller got the
\* throttling error and the title is the stored one.
C16_Witness ==
    /\ ret.op = "change_conversation_title"
    /\ ret.outcome = Throttled
    /\ TargetKey(ret) \in DOMAIN table
    /\ table[TargetKey(ret)].Title = "t1"

\* The keys of the bot records a table holds.
BotKeys(tbl) == {k \in DOMAIN tbl : IsBotKey(k)}

\* The calls of the conversation repository.
ConversationCalls ==
    {"store_conversation", "find_conversation_by_id", "delete_conversation_by_id",
     "change_conversation_title", "find_conversation_by_user_id",
     "delete_conversation_by_user_id"}

C17_Step ==
    (tick' # tick /\ ret'.op \in ConversationCalls) =>
        BotKeys(table') = BotKeys(table)

\* C17: no call of the conversation repository creates or removes a bot
\* record: the bot keys in the table change only by the bot repository's
\* calls; a store_conversation naming a bot that does not exist leaves no
\* item under that bot's key.
C17_BotKeysFixed == [][C17_Step]_vars

\* A conversation record: an item whose sort key carries the conversation
\* tag behind its partition key.
IsConvKey(k) == StartsWith(k[2], k[1] \o CONV_TAG)

\* C18: however store_conversation, change_conversation_title,
\* delete_conversation_by_id and delete_conversation_by_user_id interleave
\* on the same conversation, every item under a conversation key carries
\* Title, CreateTime, MessageMap and LastMessageId; a title change that
\* races with a delete leaves no title-only item.
C18_NoPartialItems ==
    \A k \in DOMAIN table :
        IsConvKey(k) =>
            {"Title", "CreateTime", "MessageMap", "LastMessageId"} \subseteq DOMAIN table[k]

\* A title change arrived while the bulk delete was between two store calls
\* and had removed the conversation: it was refused and nothing is stored
\* under the conversation's key.
C18_Witness ==
    /\ bd.pc = "batches"
    /\ ret.op = "change_conversation_title"
    /\ ret.outcome = "RecordNotFoundError"
    /\ Noted(TargetPair(ret), "purged")
    /\ TargetKey(ret) \notin DOMAIN table

C19_Step ==
    \A k \in DOMAIN table \cup DOMAIN table' :
        Changed(table, table', k) =>
            /\ bd.pc = "batches"
            /\ k[1] = bd.user_id
            /\ StartsWith(k[2], bd.user_id \o CONV_TAG)
            /\ k \notin DOMAIN table'

\* C19: every item a run of delete_conversation_by_user_id(user_id) changes,
\* whether the run completes or a store error stops it, is an item it
\* deletes, with PK = user_id and a sort key with the conversation tag; the
\* user's bot records and all items of other users stay as they were.
C19_PurgeFrame == [][C19_Step]_vars

\* A bulk delete removed three or more conversations of user u1; the
\* user's bot and the other user's conversation are still stored.
C19_Witness ==
    /\ ret.op = "delete_conversation_by_user_id"
    /\ ret.user_id = u1
    /\ Cardinality(AllKeys(ret.batches)) >= 3
    /\ <<u1, compose_bot_id(u1, b1)>> \in DOMAIN table
    /\ table[<<u1, compose_bot_id(u1, b1)>>] = BotItem(u1, b1)
    /\ ConversationsOf(table, u2) # {}

====
